---- MODULE Spec2Model ----
(***************************************************************************)
(* Model of setter-school-sync.py: the Airtable -> Google Sheets sync.     *)
(*                                                                         *)
(* Three specifications share this module:                                 *)
(*   Spec          the main() loop over TABLE_MAPPINGS, run after run,     *)
(*                 against a source base and a spreadsheet that persist    *)
(*                 between runs;                                           *)
(*   SpecNormalize normalize() applied to one value drawn from a bounded   *)
(*                 set of Airtable field values;                           *)
(*   SpecRows      filter_payment_plan_records() and the normal-table row  *)
(*                 loop applied to bounded record lists, the expander      *)
(*                 twice with the clock advanced in between.               *)
(*                                                                         *)
(* Python strings are TLA+ strings.  Python's ordering of strings (<=,     *)
(* sorted) is by code point; CodePoints decodes the strings the model      *)
(* orders.                                                                 *)
(***************************************************************************)
EXTENDS Integers, Sequences, FiniteSets, TLC

VARIABLES
    source,     \* Airtable: table name -> records, in fetch order
    schema,     \* Airtable: base.schema().tables
    today,      \* the calendar date, an ISO string
    sheet,      \* Google spreadsheet: tab name -> worksheet
    outcome,    \* what the current run printed for each table
    pc,         \* 0 between runs, i while table i is next, NTables+1 when the run completed
    runs,       \* completed runs
    changed,    \* the source changed since the last run
    nval,       \* normalize: its argument
    nout,       \* normalize: its result
    npc,        \* normalize: "ready" or "done"
    ekind,      \* rows: "Payment Plan" (expander) or a normal table
    erecs,      \* rows: the records
    eheaders,   \* rows: the headers
    etoday,     \* rows: date.today().isoformat()
    eout,       \* rows: the rows built, each with the record and slot it comes from
    eprev,      \* rows: the rows built before the clock advanced
    epc         \* rows: "ready", "done", "ready2", "done2"

vars == <<source, schema, today, sheet, outcome, pc, runs, changed,
          nval, nout, npc, ekind, erecs, eheaders, etoday, eout, eprev, epc>>

mainVars == <<source, schema, today, sheet, outcome, pc, runs, changed>>
normVars == <<nval, nout, npc>>
rowVars  == <<ekind, erecs, eheaders, etoday, eout, eprev, epc>>

(***************************************************************************)
(* Bounds.                                                                 *)
(***************************************************************************)
MaxListLen == 2     \* elements of a list value
MaxKeys == 2        \* keys of a nested object
MaxRecords == 2     \* records of a table
MaxRuns == 2        \* runs of main()

(***************************************************************************)
(* Python values.  Every value has the same shape: tag is the Python type, *)
(* s the text of a str, n the number of an int (1/0 for a bool), kv the    *)
(* items of a dict in insertion order, items the elements of a list.       *)
(***************************************************************************)
NoneV == [tag |-> "none", s |-> "", n |-> 0, kv |-> <<>>, items |-> <<>>]
StrV(x) == [tag |-> "str", s |-> x, n |-> 0, kv |-> <<>>, items |-> <<>>]
IntV(k) == [tag |-> "int", s |-> "", n |-> k, kv |-> <<>>, items |-> <<>>]
BoolV(b) == [tag |-> "bool", s |-> "", n |-> IF b THEN 1 ELSE 0, kv |-> <<>>, items |-> <<>>]
DictV(pairs) == [tag |-> "dict", s |-> "", n |-> 0, kv |-> pairs, items |-> <<>>]
ListV(elems) == [tag |-> "list", s |-> "", n |-> 0, kv |-> <<>>, items |-> elems]

Range(seq) == {seq[i] : i \in 1..Len(seq)}

\* "k" in d
HasKey(d, k) == \E i \in 1..Len(d.kv) : d.kv[i].k = k

\* d[k]
Item(d, k) == d.kv[CHOOSE i \in 1..Len(d.kv) : d.kv[i].k = k].v

\* bool(v): Python's truth value
Truthy(v) ==
    CASE v.tag = "none" -> FALSE
      [] v.tag = "str"  -> v.s # ""
      [] v.tag = "int"  -> v.n # 0
      [] v.tag = "bool" -> v.n # 0
      [] v.tag = "dict" -> v.kv # <<>>
      [] v.tag = "list" -> v.items # <<>>

\* str(v) of a scalar
PyStr(v) ==
    CASE v.tag = "none" -> "None"
      [] v.tag = "str"  -> v.s
      [] v.tag = "int"  -> ToString(v.n)
      [] v.tag = "bool" -> IF v.n = 1 THEN "True" ELSE "False"

\* json.dumps(v) of a scalar
JsonScalar(v) ==
    CASE v.tag = "none" -> "null"
      [] v.tag = "str"  -> "\"" \o v.s \o "\""
      [] v.tag = "int"  -> ToString(v.n)
      [] v.tag = "bool" -> IF v.n = 1 THEN "true" ELSE "false"

\* sep.join(parts)
RECURSIVE Join(_, _)
Join(sep, parts) ==
    IF parts = <<>> THEN ""
    ELSE IF Len(parts) = 1 THEN parts[1]
    ELSE parts[1] \o sep \o Join(sep, Tail(parts))

\* json.dumps(d) of a dict of scalars: keys in insertion order, ", " and ": "
JsonDumps(d) ==
    "{" \o Join(", ", [i \in 1..Len(d.kv) |->
                          "\"" \o d.kv[i].k \o "\": " \o JsonScalar(d.kv[i].v)]) \o "}"

\* lines 46-57 without the id fallback
ElemNoId(v) ==
    IF v.tag = "dict"
    THEN IF HasKey(v, "name") THEN PyStr(Item(v, "name"))
         ELSE IF HasKey(v, "url") THEN PyStr(Item(v, "url"))
         ELSE JsonDumps(v)
    ELSE PyStr(v)
\* lines 46-57: the string of one element of a list
ListPart(v) ==
    IF v.tag = "dict"
    THEN IF HasKey(v, "name") THEN PyStr(Item(v, "name"))
         ELSE IF HasKey(v, "url") THEN PyStr(Item(v, "url"))
         ELSE IF HasKey(v, "id") THEN PyStr(Item(v, "id"))
         ELSE JsonDumps(v)
    ELSE PyStr(v)

\* lines 38-67
normalize(value) ==
    IF value.tag = "none" THEN ""
    ELSE IF value.tag = "list"
    THEN Join(", ", [i \in 1..Len(value.items) |-> ListPart(value.items[i])])
    ELSE IF value.tag = "dict"
    THEN IF HasKey(value, "name") THEN PyStr(Item(value, "name"))
         ELSE IF HasKey(value, "url") THEN PyStr(Item(value, "url"))
         ELSE JsonDumps(value)
    ELSE PyStr(value)

(***************************************************************************)
(* The values normalize is applied to.                                     *)
(***************************************************************************)
Scalars == {NoneV, StrV(""), StrV("a"), StrV("b c"), IntV(0), IntV(42), BoolV(TRUE)}

DictKeys == {"name", "url", "id", "size"}

KeyValue(k) ==
    CASE k = "name" -> StrV("Bob")
      [] k = "url"  -> StrV("http://x/a.png")
      [] k = "id"   -> StrV("att1")
      [] k = "size" -> IntV(7)

\* sequences over S of length at most n
RECURSIVE SeqsUpTo(_, _)
SeqsUpTo(S, n) ==
    IF n = 0 THEN {<<>>}
    ELSE LET shorter == SeqsUpTo(S, n - 1)
         IN  shorter \cup {Append(q, x) : q \in {p \in shorter : Len(p) = n - 1}, x \in S}

NoRepeat(q) == \A i, j \in 1..Len(q) : i # j => q[i] # q[j]

Dicts ==
    {DictV([i \in 1..Len(ks) |-> [k |-> ks[i], v |-> KeyValue(ks[i])]]) :
        ks \in {q \in SeqsUpTo(DictKeys, MaxKeys) : NoRepeat(q)}}

\* a name that is not a str, a name that is None
OddDicts ==
    {DictV(<<[k |-> "name", v |-> IntV(5)]>>),
     DictV(<<[k |-> "id", v |-> IntV(9)], [k |-> "name", v |-> NoneV]>>)}

Elems == Scalars \cup Dicts \cup OddDicts

Lists == {ListV(q) : q \in SeqsUpTo(Elems, MaxListLen)}

Values == Elems \cup Lists

(***************************************************************************)
(* SpecNormalize.                                                          *)
(***************************************************************************)
Idle == 0

MainIdle ==
    /\ source = <<>> /\ schema = <<>> /\ today = "" /\ sheet = <<>>
    /\ outcome = <<>> /\ pc = Idle /\ runs = 0 /\ changed = FALSE

NormIdle == nval = NoneV /\ nout = "" /\ npc = "off"

RowsIdle ==
    /\ ekind = "" /\ erecs = <<>> /\ eheaders = <<>> /\ etoday = ""
    /\ eout = <<>> /\ eprev = <<>> /\ epc = "off"

InitNormalize ==
    /\ nval \in Values
    /\ nout = ""
    /\ npc = "ready"
    /\ MainIdle
    /\ RowsIdle

Normalize ==
    /\ npc = "ready"
    /\ nout' = normalize(nval)
    /\ npc' = "done"
    /\ UNCHANGED <<nval, mainVars, rowVars>>

NextNormalize == Normalize

SpecNormalize == InitNormalize /\ [][NextNormalize]_vars

(***************************************************************************)
(* Python's order of strings.                                              *)
(***************************************************************************)
\* [ord(c) for c in s], for the strings the program compares or sorts
CodePoints(s) ==
    CASE s = "" -> <<>>
      [] s = "2023-12-31" -> <<50, 48, 50, 51, 45, 49, 50, 45, 51, 49>>
      [] s = "2024-01-01" -> <<50, 48, 50, 52, 45, 48, 49, 45, 48, 49>>
      [] s = "2024-06-01" -> <<50, 48, 50, 52, 45, 48, 54, 45, 48, 49>>
      [] s = "2099-01-01" -> <<50, 48, 57, 57, 45, 48, 49, 45, 48, 49>>
      [] s = "Name" -> <<78, 97, 109, 101>>
      [] s = "Files" -> <<70, 105, 108, 101, 115>>
      [] s = "Amount" -> <<65, 109, 111, 117, 110, 116>>
      [] s = "notes" -> <<110, 111, 116, 101, 115>>
      [] s = "Client Name" -> <<67, 108, 105, 101, 110, 116, 32, 78, 97, 109, 101>>
      [] s = "Client Email" -> <<67, 108, 105, 101, 110, 116, 32, 69, 109, 97, 105, 108>>
      [] s = "Date of 2nd Payment" -> <<68, 97, 116, 101, 32, 111, 102, 32, 50, 110, 100, 32, 80, 97, 121, 109, 101, 110, 116>>
      [] s = "Amount Due For 2nd Payment" -> <<65, 109, 111, 117, 110, 116, 32, 68, 117, 101, 32, 70, 111, 114, 32, 50, 110, 100, 32, 80, 97, 121, 109, 101, 110, 116>>
      [] s = "Date of 3rd Payment" -> <<68, 97, 116, 101, 32, 111, 102, 32, 51, 114, 100, 32, 80, 97, 121, 109, 101, 110, 116>>
      [] s = "Amount Due For 3rd Payment" -> <<65, 109, 111, 117, 110, 116, 32, 68, 117, 101, 32, 70, 111, 114, 32, 51, 114, 100, 32, 80, 97, 121, 109, 101, 110, 116>>
      [] s = "Date of 4th Payment" -> <<68, 97, 116, 101, 32, 111, 102, 32, 52, 116, 104, 32, 80, 97, 121, 109, 101, 110, 116>>
      [] s = "Amount Due For 4th Payment" -> <<65, 109, 111, 117, 110, 116, 32, 68, 117, 101, 32, 70, 111, 114, 32, 52, 116, 104, 32, 80, 97, 121, 109, 101, 110, 116>>

\* a <= b on sequences of code points: the first difference decides, a prefix is smaller
RECURSIVE LexLeq(_, _)
LexLeq(a, b) ==
    IF a = <<>> THEN TRUE
    ELSE IF b = <<>> THEN FALSE
    ELSE IF a[1] # b[1] THEN a[1] < b[1]
    ELSE LexLeq(Tail(a), Tail(b))

\* a >= b: the comparison the wrong way round
StrGeq(a, b) == LexLeq(CodePoints(b), CodePoints(a))
\* a <= b on str
StrLeq(a, b) == LexLeq(CodePoints(a), CodePoints(b))

\* sorted(S) of a set of str
RECURSIVE Sorted(_)
Sorted(S) ==
    IF S = {} THEN <<>>
    ELSE LET m == CHOOSE x \in S : \A y \in S : StrLeq(x, y)
         IN  <<m>> \o Sorted(S \ {m})

(***************************************************************************)
(* Records.  fields is the record's "fields" mapping: a function from the  *)
(* field names present to their values.                                    *)
(***************************************************************************)
\* fields.get(h, default)
GetOr(fields, h, default) == IF h \in DOMAIN fields THEN fields[h] ELSE default

\* fields.get(h)
Get(fields, h) == GetOr(fields, h, NoneV)

\* lines 105-107, 123-125, 141-143: the three slots
Slots == {2, 3, 4}

SlotLabel(k) ==
    CASE k = 2 -> "2nd Payment"
      [] k = 3 -> "3rd Payment"
      [] k = 4 -> "4th Payment"

\* the 3rd slot reading the 2nd slot's date
SlotDateFieldPasted(k) ==
    CASE k = 2 -> "Date of 2nd Payment"
      [] k = 3 -> "Date of 2nd Payment"
      [] k = 4 -> "Date of 4th Payment"
SlotDateField(k) ==
    CASE k = 2 -> "Date of 2nd Payment"
      [] k = 3 -> "Date of 3rd Payment"
      [] k = 4 -> "Date of 4th Payment"

SlotAmountField(k) ==
    CASE k = 2 -> "Amount Due For 2nd Payment"
      [] k = 3 -> "Amount Due For 3rd Payment"
      [] k = 4 -> "Amount Due For 4th Payment"

\* payment_k_date, payment_k_amount
SlotDate(fields, k) == GetOr(fields, SlotDateField(k), StrV(""))
SlotAmount(fields, k) == GetOr(fields, SlotAmountField(k), StrV(""))

\* lines 109, 127, 145 with a date that is only required to be there
SlotDueNoAmount(fields, k, now) ==
    /\ Truthy(SlotDate(fields, k))
    /\ StrLeq(SlotDate(fields, k).s, now)
\* lines 109, 127, 145 with the comparison the wrong way round
SlotDueFlipped(fields, k, now) ==
    /\ Truthy(SlotDate(fields, k))
    /\ Truthy(SlotAmount(fields, k))
    /\ StrGeq(SlotDate(fields, k).s, now)
\* lines 109, 127, 145: if payment_k_date and payment_k_amount and payment_k_date <= today
SlotDue(fields, k, now) ==
    /\ Truthy(SlotDate(fields, k))
    /\ Truthy(SlotAmount(fields, k))
    /\ StrLeq(SlotDate(fields, k).s, now)

\* lines 110-119: row_data[h]
RowData(fields, k, h) ==
    CASE h = "Payment Type"   -> StrV(SlotLabel(k))
      [] h = "Payment Date"   -> SlotDate(fields, k)
      [] h = "Payment Amount" -> SlotAmount(fields, k)
      [] OTHER                -> GetOr(fields, h, StrV(""))

\* line 121: [normalize(row_data.get(h)) for h in headers]
SlotRow(fields, k, headers) ==
    [j \in 1..Len(headers) |-> normalize(RowData(fields, k, headers[j]))]

\* lines 105-157 for record i: the rows of its slots, appended 2nd, 3rd, 4th
SlotRowsReversed(record, i, headers, now) ==
    LET one(k) == IF SlotDue(record.fields, k, now)
                  THEN <<[rec |-> i, slot |-> k, row |-> SlotRow(record.fields, k, headers)]>>
                  ELSE <<>>
    IN  one(4) \o one(3) \o one(2)
SlotRows(record, i, headers, now) ==
    LET one(k) == IF SlotDue(record.fields, k, now)
                  THEN <<[rec |-> i, slot |-> k, row |-> SlotRow(record.fields, k, headers)]>>
                  ELSE <<>>
    IN  one(2) \o one(3) \o one(4)

\* lines 99-159: filtered_rows after the records from i on, acc before them
RECURSIVE FilterFrom(_, _, _, _, _)
FilterFrom(records, headers, now, i, acc) ==
    IF i > Len(records) THEN acc
    ELSE FilterFrom(records, headers, now, i + 1,
                    acc \o SlotRows(records[i], i, headers, now))

\* lines 94-159, with today = now
filter_payment_plan_records(records, headers, now) ==
    FilterFrom(records, headers, now, 1, <<>>)

\* line 217 with the record's own values instead of one cell per header
NormalRowOwnKeys(fields, headers) ==
    LET own == Sorted(DOMAIN fields)
    IN  [j \in 1..Len(own) |-> normalize(fields[own[j]])]
\* line 217: [normalize(fields.get(h)) for h in headers]
NormalRow(fields, headers) ==
    [j \in 1..Len(headers) |-> normalize(Get(fields, headers[j]))]

\* lines 214-217: data_rows of a normal table
NormalRows(records, headers) ==
    [i \in 1..Len(records) |->
        [rec |-> i, slot |-> 0, row |-> NormalRow(records[i].fields, headers)]]

\* line 209
custom_headers ==
    <<"Client Name", "Client Email", "Payment Type", "Payment Date", "Payment Amount">>

\* the cells of the rows built
Cells(built) == [i \in 1..Len(built) |-> built[i].row]

(***************************************************************************)
(* The records the row builders are applied to.                            *)
(***************************************************************************)
Absent == [tag |-> "absent", s |-> "", n |-> 0, kv |-> <<>>, items |-> <<>>]

\* the mapping holding the pairs whose value is not Absent
MkFields(pairs) ==
    LET present == {p \in pairs : p[2] # Absent}
    IN  [h \in {p[1] : p \in present} |-> (CHOOSE p \in present : p[1] = h)[2]]

MkRecord(id, name, slot2, slot3, slot4) ==
    [id |-> id,
     fields |-> MkFields({<<"Client Name", name>>,
                          <<SlotDateField(2), slot2[1]>>, <<SlotAmountField(2), slot2[2]>>,
                          <<SlotDateField(3), slot3[1]>>, <<SlotAmountField(3), slot3[2]>>,
                          <<SlotDateField(4), slot4[1]>>, <<SlotAmountField(4), slot4[2]>>})]

RecordDates == {"2024-01-01", "2024-06-01", "2099-01-01"}
Todays == {"2023-12-31", "2024-06-01", "2099-01-01"}
FirstToday == "2023-12-31"

NameOptions == {Absent, StrV("Ann"), ListV(<<StrV("Ann"), StrV("Bo")>>)}

\* a slot's <<date, amount>>: every way of being there or not
WideSlot(k) ==
    ({Absent, NoneV, StrV("")} \cup {StrV(d) : d \in RecordDates})
    \X {Absent, NoneV, StrV(""), IntV(0), IntV(100 * k), StrV("150")}

\* a slot's <<date, amount>>: empty, past, future
PlainSlot(k) ==
    {<<Absent, Absent>>, <<StrV("2024-01-01"), IntV(100 * k)>>,
     <<StrV("2099-01-01"), IntV(100 * k + 50)>>}

WideRecords ==
    {MkRecord("recW", nm, s2, s3, s4) :
        nm \in NameOptions, s2 \in WideSlot(2), s3 \in PlainSlot(3), s4 \in PlainSlot(4)}
    \cup
    {MkRecord("recW", nm, s2, s3, s4) :
        nm \in NameOptions, s2 \in PlainSlot(2), s3 \in WideSlot(3), s4 \in PlainSlot(4)}
    \cup
    {MkRecord("recW", nm, s2, s3, s4) :
        nm \in NameOptions, s2 \in PlainSlot(2), s3 \in PlainSlot(3), s4 \in WideSlot(4)}

PlanPool ==
    {MkRecord("recP1", StrV("Ann"),
              <<StrV("2024-01-01"), IntV(100)>>, <<StrV("2024-06-01"), IntV(200)>>,
              <<StrV("2099-01-01"), IntV(300)>>),
     MkRecord("recP2", StrV("Bo"),
              <<StrV("2024-01-01"), IntV(0)>>, <<Absent, Absent>>,
              <<StrV("2024-06-01"), StrV("150")>>),
     MkRecord("recP3", Absent, <<Absent, Absent>>, <<Absent, Absent>>, <<Absent, Absent>>)}

Attachment ==
    DictV(<<[k |-> "id", v |-> StrV("att1")], [k |-> "url", v |-> StrV("http://x/a.png")]>>)

NormalPool ==
    {[id |-> "rec1",
      fields |-> MkFields({<<"Name", StrV("Ann")>>, <<"Files", ListV(<<Attachment>>)>>,
                           <<"Amount", IntV(42)>>})],
     [id |-> "rec2", fields |-> MkFields({})],
     [id |-> "rec3",
      fields |-> MkFields({<<"Name", StrV("Bo")>>, <<"notes", StrV("x")>>,
                           <<"Amount", IntV(0)>>})]}

HeaderChoices == {<<>>, <<"Name", "Files", "Amount">>, <<"Amount", "notes">>}

(***************************************************************************)
(* SpecRows.                                                               *)
(***************************************************************************)
InitRows ==
    /\ ekind \in {"Payment Plan", "EOD"}
    /\ IF ekind = "Payment Plan"
       THEN /\ erecs \in {<<r>> : r \in WideRecords} \cup SeqsUpTo(PlanPool, MaxRecords)
            /\ eheaders = custom_headers
            /\ etoday \in Todays
       ELSE /\ erecs \in SeqsUpTo(NormalPool, MaxRecords)
            /\ eheaders \in HeaderChoices
            /\ etoday = FirstToday
    /\ eout = <<>>
    /\ eprev = <<>>
    /\ epc = "ready"
    /\ MainIdle
    /\ NormIdle

\* filter_payment_plan_records(records, custom_headers)
Expand ==
    /\ ekind = "Payment Plan"
    /\ epc \in {"ready", "ready2"}
    /\ eout' = filter_payment_plan_records(erecs, eheaders, etoday)
    /\ epc' = IF epc = "ready" THEN "done" ELSE "done2"
    /\ UNCHANGED <<ekind, erecs, eheaders, etoday, eprev, mainVars, normVars>>

\* the normal-table loop
Assemble ==
    /\ ekind # "Payment Plan"
    /\ epc = "ready"
    /\ eout' = NormalRows(erecs, eheaders)
    /\ epc' = "done"
    /\ UNCHANGED <<ekind, erecs, eheaders, etoday, eprev, mainVars, normVars>>

\* the date advances, the records stay
AdvanceClock ==
    /\ ekind = "Payment Plan"
    /\ epc = "done"
    /\ \E t \in Todays :
        /\ t # etoday
        /\ StrLeq(etoday, t)
        /\ etoday' = t
    /\ eprev' = eout
    /\ epc' = "ready2"
    /\ UNCHANGED <<ekind, erecs, eheaders, eout, mainVars, normVars>>

NextRows == Expand \/ Assemble \/ AdvanceClock

SpecRows == InitRows /\ [][NextRows]_vars

(***************************************************************************)
(* main(): the configuration, the Airtable base and the spreadsheet.       *)
(***************************************************************************)
\* lines 26-30, in the dict's order
TABLE_MAPPINGS ==
    <<[table |-> "Closer SRF", tab |-> "Closer SRF"],
      [table |-> "EOD", tab |-> "EOD"],
      [table |-> "Payment Plan", tab |-> "Payment Plan"]>>

NTables == Len(TABLE_MAPPINGS)
Tables == {TABLE_MAPPINGS[i].table : i \in 1..NTables}
Tabs == {TABLE_MAPPINGS[i].tab : i \in 1..NTables}

Min(a, b) == IF a <= b THEN a ELSE b
Max(a, b) == IF a >= b THEN a ELSE b

\* the records a table can hold
Pool(t) ==
    CASE t = "Payment Plan" -> PlanPool
      [] t = "Closer SRF"   -> {r \in NormalPool : r.id \in {"rec1", "rec2"}}
      [] t = "EOD"          -> {r \in NormalPool : r.id \in {"rec1", "rec3"}}

\* what table.all() can return: at most MaxRecords records, none of them twice
Fetches(t) == {q \in SeqsUpTo(Pool(t), MaxRecords) : NoRepeat(q)}

\* a table of more than 26 fields
WideFields == [i \in 1..27 |-> IF i = 1 THEN "Name" ELSE "Col" \o ToString(i)]

PlanFields ==
    <<"Client Name", "Client Email",
      "Date of 2nd Payment", "Amount Due For 2nd Payment",
      "Date of 3rd Payment", "Amount Due For 3rd Payment",
      "Date of 4th Payment", "Amount Due For 4th Payment">>

\* base.schema().tables: every configured table is there under its name
SchemaFull ==
    <<[id |-> "tblCloser", name |-> "Closer SRF", fields |-> <<"Name", "Files", "Amount">>],
      [id |-> "tblEOD", name |-> "EOD", fields |-> WideFields],
      [id |-> "tblPlan", name |-> "Payment Plan", fields |-> PlanFields]>>

\* base.schema().tables: the two normal tables are there under other names
SchemaRenamed ==
    <<[id |-> "tblCloser", name |-> "Closer SRF (old)", fields |-> <<"Name", "Files", "Amount">>],
      [id |-> "tblEOD", name |-> "End of day", fields |-> WideFields],
      [id |-> "tblPlan", name |-> "Payment Plan", fields |-> PlanFields]>>

SchemaVariants == {SchemaFull, SchemaRenamed, <<>>}

\* a worksheet: its grid size, the rows of cell values from A1, the last range
\* given to format()
NoSheet == [exists |-> FALSE, rows |-> 0, cols |-> 0, cells |-> <<>>, fmt |-> ""]

\* lines 70-80: None, or the field names of the first table matching by name or id
get_headers_from_schema(tables, table_name_or_id) ==
    LET match == {i \in 1..Len(tables) :
                    tables[i].name = table_name_or_id \/ tables[i].id = table_name_or_id}
    IN  IF match = {} THEN [none |-> TRUE, names |-> <<>>]
        ELSE LET first == CHOOSE i \in match : \A i2 \in match : i <= i2
             IN  [none |-> FALSE, names |-> tables[first].fields]

\* lines 200-204 raising instead of falling back: no headers
FallbackNone(records) == <<>>
\* lines 201-204: sorted(union of the records' field names)
FallbackHeaders(records) ==
    Sorted(UNION {DOMAIN records[i].fields : i \in 1..Len(records)})

\* lines 197-204 taking the headers from the records whatever the schema says
ResolveHeadersFromRecords(tables, table_name_or_id, records) ==
    Sorted(UNION {DOMAIN records[i].fields : i \in 1..Len(records)})
\* lines 197-204: headers before the special handling
ResolveHeaders(tables, table_name_or_id, records) ==
    LET headers == get_headers_from_schema(tables, table_name_or_id)
    IN  IF headers.none \/ headers.names = <<>>
        THEN FallbackHeaders(records)
        ELSE headers.names

\* lines 83-91
ensure_worksheet(spreadsheet, tab_name, rows, cols) ==
    IF spreadsheet[tab_name].exists
    THEN spreadsheet[tab_name]
    ELSE [exists |-> TRUE, rows |-> Max(rows, 100), cols |-> Max(cols, 10),
          cells |-> <<>>, fmt |-> ""]

\* line 228 left out
ClearNothing(ws) == ws
\* line 228: ws.clear()
Clear(ws) == [ws EXCEPT !.cells = <<>>]

\* line 229: ws.update("A1", all_data) writes the grid over what is there
Update(ws, all_data) ==
    [ws EXCEPT !.cells =
        [i \in 1..Max(Len(ws.cells), Len(all_data)) |->
            IF i > Len(all_data) THEN ws.cells[i]
            ELSE IF i > Len(ws.cells) THEN all_data[i]
            ELSE [j \in 1..Max(Len(ws.cells[i]), Len(all_data[i])) |->
                    IF j <= Len(all_data[i]) THEN all_data[i][j] ELSE ws.cells[i][j]]]]

\* chr(code) for "@" to "Z"
Chr(code) ==
    <<"@", "A", "B", "C", "D", "E", "F", "G", "H", "I", "J", "K", "L", "M",
      "N", "O", "P", "Q", "R", "S", "T", "U", "V", "W", "X", "Y", "Z">>[code - 63]

\* lines 232-234: the range of the bold header row
HeaderRange(headers) ==
    LET last == Min(Len(headers), 26)
        end_col == Chr(65 + last - 1)
    IN  "A1:" \o end_col \o "1"

\* lines 206-219: headers and data_rows
Grid(table_name_or_id, records, resolved, now) ==
    IF table_name_or_id = "Payment Plan"
    THEN [headers |-> custom_headers,
          data_rows |-> Cells(filter_payment_plan_records(records, custom_headers, now))]
    ELSE [headers |-> resolved,
          data_rows |-> Cells(NormalRows(records, resolved))]

\* lines 221-234: the worksheet after ensure_worksheet, clear, update and format
Written(spreadsheet, tab_name, headers, data_rows) ==
    LET all_data == <<headers>> \o data_rows
        ws == ensure_worksheet(spreadsheet, tab_name, Len(all_data) + 10, Len(headers) + 5)
        updated == Update(Clear(ws), all_data)
    IN  [updated EXCEPT !.fmt = HeaderRange(headers)]

(***************************************************************************)
(* Spec: the runs of main().                                               *)
(***************************************************************************)
Init ==
    /\ source = [t \in Tables |-> <<>>]
    /\ schema \in SchemaVariants
    /\ today = FirstToday
    /\ sheet = [b \in Tabs |-> NoSheet]
    /\ outcome = [t \in Tables |-> "pending"]
    /\ pc = Idle
    /\ runs = 0
    /\ changed = FALSE
    /\ NormIdle
    /\ RowsIdle

\* between runs the records of one table change
ChangeSource ==
    /\ pc = Idle
    /\ runs < MaxRuns
    /\ ~changed
    /\ \E t \in Tables : \E q \in Fetches(t) :
        /\ q # source[t]
        /\ source' = [source EXCEPT ![t] = q]
    /\ changed' = TRUE
    /\ UNCHANGED <<schema, today, sheet, outcome, pc, runs, normVars, rowVars>>

\* between runs the base's schema changes
ChangeSchema ==
    /\ pc = Idle
    /\ runs < MaxRuns
    /\ ~changed
    /\ \E s \in SchemaVariants :
        /\ s # schema
        /\ schema' = s
    /\ changed' = TRUE
    /\ UNCHANGED <<source, today, sheet, outcome, pc, runs, normVars, rowVars>>

\* between runs the date advances
Tick ==
    /\ pc = Idle
    /\ runs < MaxRuns
    /\ \E t \in Todays :
        /\ t # today
        /\ StrLeq(today, t)
        /\ today' = t
    /\ UNCHANGED <<source, schema, sheet, outcome, pc, runs, changed, normVars, rowVars>>

\* lines 162-183: main() starts
StartRun ==
    /\ pc = Idle
    /\ runs < MaxRuns
    /\ pc' = 1
    /\ outcome' = [t \in Tables |-> "pending"]
    /\ changed' = FALSE
    /\ UNCHANGED <<source, schema, today, sheet, runs, normVars, rowVars>>

\* lines 185-236: one iteration of the loop over TABLE_MAPPINGS
SyncTable ==
    /\ pc \in 1..NTables
    /\ LET table_name_or_id == TABLE_MAPPINGS[pc].table
           tab_name == TABLE_MAPPINGS[pc].tab
           records == source[table_name_or_id]
       IN  IF records = <<>>
           THEN /\ outcome' = [outcome EXCEPT ![table_name_or_id] = "skipped"]
                /\ sheet' = sheet
           ELSE LET resolved == ResolveHeaders(schema, table_name_or_id, records)
                    grid == Grid(table_name_or_id, records, resolved, today)
                IN  /\ sheet' = [sheet EXCEPT ![tab_name] =
                                    Written(sheet, tab_name, grid.headers, grid.data_rows)]
                    /\ outcome' = [outcome EXCEPT ![table_name_or_id] = "synced"]
    /\ pc' = pc + 1
    /\ UNCHANGED <<source, schema, today, runs, changed, normVars, rowVars>>

\* line 238: main() returns
FinishRun ==
    /\ pc = NTables + 1
    /\ pc' = Idle
    /\ runs' = runs + 1
    /\ UNCHANGED <<source, schema, today, sheet, outcome, changed, normVars, rowVars>>

Next == ChangeSource \/ ChangeSchema \/ Tick \/ StartRun \/ SyncTable \/ FinishRun

Spec == Init /\ [][Next]_vars

(***************************************************************************)
(* Properties of normalize (SpecNormalize).                                *)
(***************************************************************************)
\* the rendering of an object: the first of the keys prio it has, else its serialization
ByPriority(d, prio) ==
    LET has == {i \in 1..Len(prio) : \E j \in 1..Len(d.kv) : d.kv[j].k = prio[i]}
    IN  IF has = {} THEN JsonDumps(d)
        ELSE LET first == CHOOSE i \in has : \A i2 \in has : i <= i2
                 at == CHOOSE j \in 1..Len(d.kv) : d.kv[j].k = prio[first]
             IN  PyStr(d.kv[at].v)

\* the elements' strings, left to right, each but the last followed by ", "
RECURSIVE Joined(_, _)
Joined(texts, upto) ==
    IF upto = 0 THEN ""
    ELSE IF upto = 1 THEN texts[1]
    ELSE Joined(texts, upto - 1) \o ", " \o texts[upto]

IdOnly == DictV(<<[k |-> "id", v |-> StrV("att1")]>>)

\* C7: None gives "", a list gives its elements' strings joined with ", " in list
\* order (so [] gives ""), an object in a list is rendered by name, else url, else
\* id, else its serialization, an object on its own by name, else url, else its
\* serialization: an object holding only an id gives the id in a list and its
\* serialization on its own.
C7_NormalizeCases ==
    npc = "done" =>
        /\ nval.tag = "none" => nout = ""
        /\ nval.tag = "list" =>
              nout = Joined([i \in 1..Len(nval.items) |->
                                IF nval.items[i].tag = "dict"
                                THEN ByPriority(nval.items[i], <<"name", "url", "id">>)
                                ELSE PyStr(nval.items[i])],
                            Len(nval.items))
        /\ nval = ListV(<<>>) => nout = ""
        /\ nval.tag = "dict" => nout = ByPriority(nval, <<"name", "url">>)
        /\ nval = IdOnly => nout = "{\"id\": \"att1\"}"
        /\ nval = ListV(<<IdOnly>>) => nout = "att1"
        /\ nval = ListV(<<StrV("a"), StrV("b c")>>) => nout = "a, b c"

\* an id-only object inside a list of two elements has been normalized
C7_Witness ==
    /\ npc = "done"
    /\ nval = ListV(<<IdOnly, StrV("a")>>)
    /\ nout = "att1, a"

(***************************************************************************)
(* Properties of the row builders (SpecRows).                              *)
(***************************************************************************)
ExpandDone == ekind = "Payment Plan" /\ epc \in {"done", "done2"}

\* the output holds a row for slot k of record i
HasRowFor(i, k) == \E j \in 1..Len(eout) : eout[j].rec = i /\ eout[j].slot = k

Ordinal(k) == IF k = 2 THEN "2nd" ELSE IF k = 3 THEN "3rd" ELSE "4th"
DateName(k) == "Date of " \o Ordinal(k) \o " Payment"
AmountName(k) == "Amount Due For " \o Ordinal(k) \o " Payment"

\* the field is there, not null and not empty
Present(fields, name) ==
    /\ name \in DOMAIN fields
    /\ fields[name].tag # "none"
    /\ ~(fields[name].tag = "str" /\ fields[name].s = "")
    /\ ~(fields[name].tag = "list" /\ fields[name].items = <<>>)

\* the field is not the number zero
NotZero(fields, name) == ~(fields[name].tag \in {"int", "bool"} /\ fields[name].n = 0)

\* C1 as claimed: a row for a slot exactly when its date and amount are present
\* (non-null, non-empty) and the date is <= today.
C1_RowIffPresentAndDue ==
    ExpandDone =>
        \A i \in 1..Len(erecs), k \in Slots :
            HasRowFor(i, k) <=>
                /\ Present(erecs[i].fields, DateName(k))
                /\ Present(erecs[i].fields, AmountName(k))
                /\ StrLeq(erecs[i].fields[DateName(k)].s, etoday)

\* C1 amended: a row for a slot exactly when its date and amount are present
\* (non-null, non-empty), the amount is not the number 0, and the date is <= today.
C1_RowIffTruthyAndDue ==
    ExpandDone =>
        \A i \in 1..Len(erecs), k \in Slots :
            HasRowFor(i, k) <=>
                /\ Present(erecs[i].fields, DateName(k))
                /\ Present(erecs[i].fields, AmountName(k))
                /\ NotZero(erecs[i].fields, AmountName(k))
                /\ StrLeq(erecs[i].fields[DateName(k)].s, etoday)

\* one record with a slot that gave a row, a slot left out for its future date and a
\* slot left out for its amount of 0
C1_Witness ==
    /\ ExpandDone
    /\ \E i \in 1..Len(erecs) : \E k1, k2, k3 \in Slots :
        /\ HasRowFor(i, k1)
        /\ ~HasRowFor(i, k2)
        /\ Present(erecs[i].fields, DateName(k2))
        /\ Present(erecs[i].fields, AmountName(k2))
        /\ ~StrLeq(erecs[i].fields[DateName(k2)].s, etoday)
        /\ ~HasRowFor(i, k3)
        /\ Present(erecs[i].fields, AmountName(k3))
        /\ ~NotZero(erecs[i].fields, AmountName(k3))

\* the text of an amount
AmountText(v) == IF v.tag = "int" THEN ToString(v.n) ELSE v.s

\* C6: a row of slot k of a record holds the slot's label at Payment Type, the
\* slot's own date at Payment Date, the slot's own amount as text at Payment
\* Amount, and at every other header the record's normalized field, "" without it.
C6_RowCells ==
    ExpandDone =>
        \A j \in 1..Len(eout) :
            LET f == erecs[eout[j].rec].fields
                k == eout[j].slot
            IN  /\ Len(eout[j].row) = Len(eheaders)
                /\ DateName(k) \in DOMAIN f
                /\ AmountName(k) \in DOMAIN f
                /\ \A p \in 1..Len(eheaders) :
                    eout[j].row[p] =
                        CASE eheaders[p] = "Payment Type" -> Ordinal(k) \o " Payment"
                          [] eheaders[p] = "Payment Date" -> f[DateName(k)].s
                          [] eheaders[p] = "Payment Amount" -> AmountText(f[AmountName(k)])
                          [] OTHER -> IF eheaders[p] \in DOMAIN f
                                      THEN normalize(f[eheaders[p]])
                                      ELSE ""

\* a row of the 3rd slot of a record whose 2nd slot has another date and amount
C6_Witness ==
    /\ ExpandDone
    /\ \E j \in 1..Len(eout) :
        LET f == erecs[eout[j].rec].fields
        IN  /\ eout[j].slot = 3
            /\ Present(f, DateName(2))
            /\ Present(f, AmountName(2))
            /\ f[DateName(2)] # f[DateName(3)]
            /\ f[AmountName(2)] # f[AmountName(3)]
            /\ "Client Name" \in DOMAIN f

\* C9: rows are in record order and, within a record, in the order 2nd, 3rd,
\* 4th, a record giving at most one row per slot to the expanded table and exactly
\* one row to a normal table.
C9_RowOrder ==
    /\ ExpandDone =>
        /\ \A j \in 1..Len(eout) :
            /\ eout[j].rec \in 1..Len(erecs)
            /\ eout[j].slot \in Slots
            /\ eout[j].row[3] = Ordinal(eout[j].slot) \o " Payment"
        /\ \A j1, j2 \in 1..Len(eout) :
            j1 < j2 =>
                \/ eout[j1].rec < eout[j2].rec
                \/ eout[j1].rec = eout[j2].rec /\ eout[j1].slot < eout[j2].slot
    /\ (ekind # "Payment Plan" /\ epc = "done") =>
        /\ Len(eout) = Len(erecs)
        /\ \A i \in 1..Len(eout) :
            /\ eout[i].rec = i
            /\ Len(eout[i].row) = Len(eheaders)
            /\ \A p \in 1..Len(eheaders) :
                eout[i].row[p] = IF eheaders[p] \in DOMAIN erecs[i].fields
                                 THEN normalize(erecs[i].fields[eheaders[p]])
                                 ELSE ""

\* two records expanded, the first into at least two rows and the second into one
C9_Witness ==
    /\ ExpandDone
    /\ Len(erecs) = 2
    /\ Cardinality({j \in 1..Len(eout) : eout[j].rec = 1}) >= 2
    /\ Cardinality({j \in 1..Len(eout) : eout[j].rec = 2}) >= 1

\* C10: with the records unchanged and today advanced, the rows built before are
\* all built again, unaltered and in the same relative order.
C10_MonotoneInToday ==
    epc = "done2" =>
        LET kept(e) == e \in Range(eprev)
        IN  SelectSeq(eout, kept) = eprev

\* a later date gave every earlier row and a new one
C10_Witness ==
    /\ epc = "done2"
    /\ Len(eprev) >= 1
    /\ Len(eout) > Len(eprev)

(***************************************************************************)
(* Properties of the runs of main() (Spec).                                *)
(***************************************************************************)
Done == NTables + 1
TableAt(i) == TABLE_MAPPINGS[i].table
TabAt(i) == TABLE_MAPPINGS[i].tab

\* table i has been handled in the run under way
Processed(i) == pc > i

\* the schema has a table of that name or id
Found(t) == \E i \in 1..Len(schema) : schema[i].name = t \/ schema[i].id = t

\* the field names the schema declares for the table, in its order
Declared(t) ==
    LET at == CHOOSE i \in 1..Len(schema) :
                /\ schema[i].name = t \/ schema[i].id = t
                /\ \A i2 \in 1..(i - 1) : ~(schema[i2].name = t \/ schema[i2].id = t)
    IN  schema[at].fields

\* the header row is the sorted union of the records' field names
IsSortedUnion(headers, records) ==
    /\ Range(headers) = UNION {DOMAIN records[i].fields : i \in 1..Len(records)}
    /\ \A p \in 1..(Len(headers) - 1) :
        headers[p] # headers[p + 1] /\ StrLeq(headers[p], headers[p + 1])

\* C2 as claimed: a table with records whose schema lookup fails is not synced: its
\* sync fails with a SchemaResolutionError.
C2_FailedLookupRaises ==
    \A i \in 1..NTables :
        (Processed(i) /\ ~Found(TableAt(i)) /\ source[TableAt(i)] # <<>>) =>
            outcome[TableAt(i)] = "SchemaResolutionError"

\* C2 amended: a table with records whose schema lookup fails is synced all the
\* same: its tab is written under the sorted union of the records' field names
\* (under the custom headers for Payment Plan).
C2_FailedLookupFallsBack ==
    \A i \in 1..NTables :
        (Processed(i) /\ ~Found(TableAt(i)) /\ source[TableAt(i)] # <<>>) =>
            /\ outcome[TableAt(i)] = "synced"
            /\ sheet[TabAt(i)].exists
            /\ Len(sheet[TabAt(i)].cells) >= 1
            /\ IF TableAt(i) = "Payment Plan"
               THEN sheet[TabAt(i)].cells[1] = custom_headers
               ELSE /\ IsSortedUnion(sheet[TabAt(i)].cells[1], source[TableAt(i)])
                    /\ Len(sheet[TabAt(i)].cells) = 1 + Len(source[TableAt(i)])

\* a table missing from the schema was written under headers taken from its records
C2_Witness ==
    \E i \in 1..NTables :
        /\ Processed(i)
        /\ ~Found(TableAt(i))
        /\ TableAt(i) # "Payment Plan"
        /\ Len(source[TableAt(i)]) = 2
        /\ outcome[TableAt(i)] = "synced"
        /\ Len(sheet[TabAt(i)].cells[1]) >= 3

\* the rows the table's current records give under the headers
CurrentRows(t, headers) ==
    IF t = "Payment Plan"
    THEN Range(Cells(filter_payment_plan_records(source[t], headers, today)))
    ELSE {NormalRow(source[t][r].fields, headers) : r \in 1..Len(source[t])}

\* the worksheet holds a header row and, below it, only rows of current records
OnlyCurrentRows(t, ws) ==
    \A r \in 2..Len(ws.cells) : ws.cells[r] \in CurrentRows(t, ws.cells[1])

\* C3 as claimed: after a completed run every tab holds only the header row and
\* rows of records now in its table, also when the table has become empty.
C3_TabsHoldOnlyCurrentRows ==
    pc = Done =>
        \A i \in 1..NTables :
            sheet[TabAt(i)].exists => OnlyCurrentRows(TableAt(i), sheet[TabAt(i)])

\* the step of a run for the table at pc: a table with records leaves its tab holding
\* the header row and only rows of the records now in the table, a table without
\* records leaves its tab as it was, and no other tab is touched
SyncStepReplaces ==
    pc \in 1..NTables =>
        /\ \A b \in Tabs \ {TabAt(pc)} : sheet'[b] = sheet[b]
        /\ IF source[TableAt(pc)] = <<>>
           THEN sheet'[TabAt(pc)] = sheet[TabAt(pc)]
           ELSE /\ sheet'[TabAt(pc)].exists
                /\ Len(sheet'[TabAt(pc)].cells) >= 1
                /\ OnlyCurrentRows(TableAt(pc), sheet'[TabAt(pc)])

\* C3 amended: in every run, the tab of every table that has records is cleared and
\* rewritten, so that it holds the header row and only rows of the records now in
\* the table; the tab of a table without records is skipped and left as it was.
C3_FullReplaceUnlessEmpty == [][SyncStepReplaces]_vars

\* a run completed with a table that has become empty: skipped, its tab still
\* holding the rows of the run before
C3_Witness ==
    /\ pc = Done
    /\ runs >= 1
    /\ \E i \in 1..NTables :
        /\ source[TableAt(i)] = <<>>
        /\ outcome[TableAt(i)] = "skipped"
        /\ Len(sheet[TabAt(i)].cells) >= 2

\* C4: for a normal table with records that the schema lookup finds, the header
\* row is the schema's field names in the schema's order, whatever the records hold.
C4_SchemaHeadersVerbatim ==
    \A i \in 1..NTables :
        (/\ Processed(i)
         /\ TableAt(i) # "Payment Plan"
         /\ Found(TableAt(i))
         /\ source[TableAt(i)] # <<>>) =>
            /\ sheet[TabAt(i)].exists
            /\ sheet[TabAt(i)].cells[1] = Declared(TableAt(i))

\* a found table was written whose records hold a field the schema does not declare
C4_Witness ==
    \E i \in 1..NTables :
        /\ Processed(i)
        /\ TableAt(i) # "Payment Plan"
        /\ Found(TableAt(i))
        /\ outcome[TableAt(i)] = "synced"
        /\ \E r \in 1..Len(source[TableAt(i)]) :
            ~(DOMAIN source[TableAt(i)][r].fields \subseteq Range(Declared(TableAt(i))))

\* C5: every row of every grid written has as many cells as the header row.
C5_RowsAlignWithHeaders ==
    \A b \in Tabs :
        \A r \in 1..Len(sheet[b].cells) : Len(sheet[b].cells[r]) = Len(sheet[b].cells[1])

\* a normal tab with a row of a record without fields under three headers or more,
\* and the expanded tab with a data row
C5_Witness ==
    /\ \E i \in 1..NTables :
        /\ TableAt(i) # "Payment Plan"
        /\ Processed(i)
        /\ outcome[TableAt(i)] = "synced"
        /\ Len(sheet[TabAt(i)].cells[1]) >= 3
        /\ \E r \in 1..Len(source[TableAt(i)]) : DOMAIN source[TableAt(i)][r].fields = {}
    /\ Len(sheet["Payment Plan"].cells) >= 2

Letters ==
    <<"A", "B", "C", "D", "E", "F", "G", "H", "I", "J", "K", "L", "M",
      "N", "O", "P", "Q", "R", "S", "T", "U", "V", "W", "X", "Y", "Z">>

\* C8: for every tab written, the range given to format() is the header row from
\* column A to the letter of column min(number of headers, 26), a letter in A..Z.
C8_BoldRangeCappedAtZ ==
    \A b \in Tabs :
        (sheet[b].exists /\ Len(sheet[b].cells) >= 1) =>
            LET last == Min(Len(sheet[b].cells[1]), 26)
            IN  /\ last \in 1..26
                /\ sheet[b].fmt = "A1:" \o Letters[last] \o "1"

\* C8 where there is a header: the same, for every tab written with at least one header
C8_BoldRangeWithHeaders ==
    \A b \in Tabs :
        (sheet[b].exists /\ Len(sheet[b].cells) >= 1 /\ Len(sheet[b].cells[1]) >= 1) =>
            sheet[b].fmt = "A1:" \o Letters[Min(Len(sheet[b].cells[1]), 26)] \o "1"

====
